---- MODULE Spec2Model ----
(***************************************************************************)
(* A model of the comprehension evaluators ("steppers") of Either, Maybe   *)
(* and These, synchronous and asynchronous, of the sequential collection   *)
(* functions built on them (reduce, collect, traverseInto, traverseThese), *)
(* of These.flatMap, of Semigroup.cmb of the three families, and of the    *)
(* concurrent collections AsyncMaybe.traverseIntoPar and traversePar.      *)
(*                                                                         *)
(* One behaviour of the model is one call of one of these operations: Init *)
(* draws the operation (scn) and its input, the actions are the steps of   *)
(* the operation's code.                                                   *)
(***************************************************************************)
EXTENDS Integers, Sequences, FiniteSets, TLC

VARIABLES
    scn,        \* the operation under evaluation
    gen,        \* the generator handed to a stepper (program and position)
    pc,         \* the position of the running operation in its code
    nxt,        \* the stepper's local `nxt` / `nx`: the last iterator result
    err,        \* Either.step: the local `err`
    isHalted,   \* Maybe.go: the local `isHalted`
    acc,        \* doImpl / doAsyncImpl: the local `e` (accumulated first payload)
    result,     \* what the operation returned (or its promise settled with)
    log,        \* the calls the stepper made on the generator, in order
    inflight,   \* doAsyncImpl: the calls on the generator not yet settled
    these,      \* These.flatMap: the receiver
    fn,         \* These.flatMap: the argument f, as a table
    fcalls,     \* the arguments f was invoked with, in order
    args,       \* cmb: the operands a, b, c
    elems,      \* traverseIntoPar: what each element computation settles with
    remaining,  \* traverseIntoPar: the local `remaining`
    comp,       \* traverseIntoPar: the state of each element computation
    promise,    \* traverseIntoPar: the returned promise
    builder     \* traverseIntoPar: the calls made on the builder

vars == <<scn, gen, pc, nxt, err, isHalted, acc, result, log, inflight,
          these, fn, fcalls, args, elems, remaining, comp, promise, builder>>

stepperVars == <<gen, nxt, err, isHalted, acc, log, inflight>>
flatMapVars == <<these, fn, fcalls, args>>
parVars     == <<elems, remaining, comp, promise, builder>>

----------------------------------------------------------------------------
(* Bounds of the model. *)

\* the most yields in a generator's body
MaxYields == 2
\* the most yields in a generator's finally block
MaxFinYields == 1
\* the most elements handed to traverseIntoPar
MaxElems == 3

----------------------------------------------------------------------------
(* Values. *)

\* first payloads: members of a semigroup (the tests use a Str wrapper)
Firsts == {"a", "c"}
\* second payloads
Seconds == {"x", "y"}
\* what a generator returns
Returns == {"r"}
\* what a finally block returns when it overrides the pending completion
Overrides == {"o"}

\* the JavaScript value undefined
Undefined == "undefined"

\* cmb of two Str values: concatenation, left operand first
cmb(x, y) == x \o y

SeqsUpTo(S, n) == UNION {[1..k -> S] : k \in 0..n}

----------------------------------------------------------------------------
(* Either. *)

left(val)  == [kind |-> "LEFT", val |-> val]
right(val) == [kind |-> "RIGHT", val |-> val]
isRight(either) == either.kind = "RIGHT"

Eithers == {left(a) : a \in Firsts} \cup {right(b) : b \in Seconds}

\* the private symbol of Either's comprehension implementation
halt == "Symbol()"

(* Maybe. *)

nothing == [kind |-> "NOTHING"]
just(val) == [kind |-> "JUST", val |-> val]
isJust(maybe) == maybe.kind = "JUST"
isNothing(maybe) == maybe.kind = "NOTHING"

Maybes == {nothing} \cup {just(b) : b \in Seconds}

(* These. *)

first(x)   == [type |-> "First", value |-> x]
second(x)  == [type |-> "Second", value |-> x]
both(x, y) == [type |-> "Both", fst |-> x, snd |-> y]
here(t)    == t.type = "First"
there(t)   == t.type = "Second"
paired(t)  == t.type = "Both"

Theses == {first(a) : a \in Firsts} \cup {second(b) : b \in Seconds}
            \cup {both(a, b) : a \in Firsts, b \in Seconds}

\* the identifier a These yields beside itself
uid == "@neotype/prelude/These/uid"

----------------------------------------------------------------------------
(* Arrays and builders. *)

\* the entries of an array, written in a row
RECURSIVE Entries(_)
Entries(xs) ==
    IF Len(xs) = 0 THEN ""
    ELSE IF Len(xs) = 1 THEN xs[1]
    ELSE xs[1] \o "," \o Entries(Tail(xs))

\* a JavaScript array as a value a generator returns: [x,y]
ArrayOf(xs) == "[" \o Entries(xs) \o "]"

\* the caller's builder: it collects what is added, in the order of the calls
NewBuilder == [kind |-> "push", added |-> <<>>, finished |-> 0]

\* new ArrayEntryBuilder(): it is handed [index, value] entries
NewArrayEntryBuilder == [kind |-> "entry", added |-> <<>>, finished |-> 0]

\* new ArrayPushBuilder(): it pushes what it is handed onto an array
NewArrayPushBuilder == [kind |-> "array-push", added |-> <<>>, finished |-> 0]

\* builder.add(val)
add(b, val) == [b EXCEPT !.added = Append(@, val)]

\* arr[idx] = val on a JavaScript array (kept from position 1): the array
\* grows as needed, the positions never assigned are holes
ArraySet(arr, idx, val) ==
    LET n == IF Len(arr) > idx + 1 THEN Len(arr) ELSE idx + 1
    IN  [k \in 1..n |-> IF k = idx + 1 THEN val
                        ELSE IF k <= Len(arr) THEN arr[k] ELSE Undefined]

\* the array an ArrayEntryBuilder holds after the entries es were added
RECURSIVE EntryArray(_)
EntryArray(es) ==
    IF es = <<>> THEN <<>>
    ELSE LET e == es[Len(es)]
         IN  ArraySet(EntryArray(SubSeq(es, 1, Len(es) - 1)), e[1], e[2])

\* builder.finish(): the builder hands out what it built
finish(b) == [b EXCEPT !.finished = @ + 1]
finished(b) ==
    CASE b.kind = "entry"      -> EntryArray(b.added)
      [] b.kind = "array-push" -> ArrayOf(b.added)
      [] OTHER                 -> b.added

----------------------------------------------------------------------------
(* Generators.                                                             *)
(*                                                                         *)
(* The steppers drive a generator supplied by the caller.  A generator     *)
(* program is a body of yields and a return value, optionally wrapped as   *)
(*     try { body; return ret } finally { fin; [return finRet] }           *)
(* A yield is written yield*: the yielded value's [Symbol.iterator] yields *)
(* the value itself and returns what the stepper sends back.               *)
(*                                                                         *)
(* The generator object records what it yielded (yielded), what its yields *)
(* were resumed with (sent, finSent), how often its finally block was      *)
(* entered (cleanups), what it completed with (retval) and the calls made  *)
(* on it after it had completed (late).                                    *)

NoOverride == "no-override"

Programs(Y) ==
    {[body |-> b, ret |-> r, hasFinally |-> h, fin |-> f, finRet |-> o,
      loop |-> "none", throws |-> t] :
        b \in SeqsUpTo(Y, MaxYields), r \in Returns, h \in BOOLEAN,
        f \in SeqsUpTo(Y, MaxFinYields), o \in Overrides \cup {NoOverride},
        t \in BOOLEAN}

\* what a throwing body throws
Error == "Error"

\* the initial accumulator handed to a reduction
Initial == "z"

\* the generators the collection functions build: a loop over the elements
\* that yields, for each element, what f (or the reducer) gives for it, or
\* the element itself when the elements are collected as they are.  body
\* holds these values by position; loop names what the loop does with the
\* value it is resumed with and what the generator returns:
\*   "reduce"        acc = yield* accum(acc, val);     return acc
\*   "traverseInto"  builder.add(yield* f(elem, idx)); return builder.finish()
\*   "collect"       results[idx] = yield* either;     return results
\*   "traverse"      ys.push(yield* f(x));             return ys
LoopPrograms(Y, loop) ==
    {[body |-> b, ret |-> Initial, hasFinally |-> FALSE, fin |-> <<>>,
      finRet |-> NoOverride, loop |-> loop, throws |-> FALSE] :
        b \in SeqsUpTo(Y, MaxElems)}

\* a program without a finally block has nothing in it; the finally block
\* of a body that throws is taken without yields of its own
WellFormed(p) ==
    /\ p.hasFinally \/ (p.fin = <<>> /\ p.finRet = NoOverride)
    /\ p.throws => p.fin = <<>>

\* the generator object before its first next()
NewGen(p) ==
    [prog |-> p, phase |-> "fresh", idx |-> 0, pending |-> Undefined,
     yielded |-> <<>>, sent |-> <<>>, finSent |-> <<>>,
     cleanups |-> 0, late |-> 0, retval |-> Undefined,
     fcalls |-> <<>>, builder |-> NewArrayPushBuilder, throwing |-> FALSE]

NoGen == NewGen([body |-> <<>>, ret |-> "r", hasFinally |-> FALSE,
                 fin |-> <<>>, finRet |-> NoOverride, loop |-> "none",
                 throws |-> FALSE])

IterYield(g, phase, i, value) ==
    [gen |-> [g EXCEPT !.phase = phase, !.idx = i, !.yielded = Append(@, value)],
     res |-> [done |-> FALSE, value |-> value, threw |-> FALSE]]

IterDone(g, value) ==
    [gen |-> [g EXCEPT !.phase = "done",
                       !.retval = IF g.phase = "done" THEN @ ELSE value],
     res |-> [done |-> TRUE, value |-> value, threw |-> FALSE]]

\* the call on the generator throws e: the generator is closed
IterThrow(g, e) ==
    [gen |-> [g EXCEPT !.phase = "threw"],
     res |-> [done |-> TRUE, value |-> e, threw |-> TRUE]]

\* the end of the finally block: its own return wins over the pending
\* completion, which otherwise goes on: a return, or an error on its way out
LeaveFinally(g) ==
    IF g.prog.finRet # NoOverride THEN IterDone(g, g.prog.finRet)
    ELSE IF g.throwing THEN IterThrow(g, g.pending)
    ELSE IterDone(g, g.pending)

\* the finally block starts running, with the completion `value` pending
EnterFinally(g, value) ==
    LET g1 == [g EXCEPT !.cleanups = @ + 1, !.pending = value]
    IN  IF Len(g.prog.fin) > 0
        THEN IterYield(g1, "fin", 1, g.prog.fin[1])
        ELSE LeaveFinally(g1)

\* the body completes with `value` (its return value, or a forced one)
Complete(g, value) ==
    IF g.prog.hasFinally THEN EnterFinally(g, value) ELSE IterDone(g, value)

\* the body throws e
Throw(g, e) ==
    IF g.prog.hasFinally THEN EnterFinally([g EXCEPT !.throwing = TRUE], e)
    ELSE IterThrow(g, e)

\* a reduction that never takes the success as its accumulator
LoopAccInitial(g) == g.prog.ret

\* the local `acc` of a reduction: the last success bound, or the initial
LoopAcc(g) == IF g.sent = <<>> THEN g.prog.ret ELSE g.sent[Len(g.sent)]

\* the loop body reaches the i-th element and invokes f (the reducer) on it
Invoke(g, i) ==
    CASE g.prog.loop = "traverseInto" ->
            [g EXCEPT !.fcalls = Append(@, <<i, Len(g.sent)>>)]
      [] g.prog.loop = "reduce" ->
            [g EXCEPT !.fcalls = Append(@, <<i, LoopAcc(g)>>)]
      [] g.prog.loop = "traverse" ->
            [g EXCEPT !.fcalls = Append(@, <<i>>)]
      [] OTHER -> g

\* a loop that stores each success in front of the earlier ones
ResumeInFront(g, v) ==
    [g EXCEPT !.sent = <<v>> \o @,
              !.builder = IF g.prog.loop = "traverseInto" THEN add(@, v) ELSE @]

\* the yield* expression evaluates to v, and the statement around it runs
Resume(g, v) ==
    [g EXCEPT !.sent = Append(@, v),
              !.builder = IF g.prog.loop = "traverseInto" THEN add(@, v) ELSE @]

\* the end of the body: its return statement, or the throw in its place
Return(g) ==
    CASE g.prog.throws -> Throw(g, Error)
      [] g.prog.loop = "traverseInto" ->
            LET b == finish(g.builder)
            IN  Complete([g EXCEPT !.builder = b], finished(b))
      [] g.prog.loop \in {"collect", "traverse"} -> Complete(g, ArrayOf(g.sent))
      [] g.prog.loop = "reduce" -> Complete(g, LoopAcc(g))
      [] OTHER -> Complete(g, g.prog.ret)

\* gen.next(v)
GenNext(g, v) ==
    CASE g.phase = "fresh" ->
            IF Len(g.prog.body) > 0
            THEN IterYield(Invoke(g, 1), "body", 1, g.prog.body[1])
            ELSE Return(g)
      [] g.phase = "body" ->
            LET g1 == Resume(g, v)
            IN  IF g.idx < Len(g.prog.body)
                THEN IterYield(Invoke(g1, g.idx + 1), "body", g.idx + 1,
                               g.prog.body[g.idx + 1])
                ELSE Return(g1)
      [] g.phase = "fin" ->
            LET g1 == [g EXCEPT !.finSent = Append(@, v)]
            IN  IF g.idx < Len(g.prog.fin)
                THEN IterYield(g1, "fin", g.idx + 1, g.prog.fin[g.idx + 1])
                ELSE LeaveFinally(g1)
      [] OTHER -> IterDone([g EXCEPT !.late = @ + 1], Undefined)

\* gen.return(v)
GenReturn(g, v) ==
    CASE g.phase = "body" -> Complete(g, v)
      [] g.phase = "done" -> IterDone([g EXCEPT !.late = @ + 1], v)
      [] OTHER -> IterDone(g, v)


----------------------------------------------------------------------------
(* The state before the operation's first step. *)

NoResult == [kind |-> "none"]
NoIter   == [done |-> FALSE, value |-> Undefined, threw |-> FALSE]

Call(op, arg) == [op |-> op, arg |-> arg]

\* a value is truthy unless it is undefined (first payloads are objects)
Truthy(x) == x # Undefined

\* an error caught and turned into a failure
EscapedAsLeft(e) == left(e)

\* an error that leaves the evaluator: the call throws it, or the promise
\* of an asynchronous evaluator rejects with it
Escaped(e) ==
    IF scn \in {"Either.goAsync", "AsyncMaybe.go", "doAsyncThese"}
    THEN [kind |-> "rejected", error |-> e]
    ELSE [kind |-> "thrown", error |-> e]

\* a call on the generator has given nxt: the evaluator goes on at `next`,
\* or, when the call threw, the error leaves the evaluator there and then
AfterCall(next) ==
    /\ pc' = IF nxt'.threw THEN "done" ELSE next
    /\ result' = IF nxt'.threw THEN Escaped(nxt'.value) ELSE result

\* the functions that hand a generator to each evaluator
EitherGo == {"Either.go", "Either.reduce", "Either.collect"}
MaybeGo  == {"Maybe.go", "Maybe.traverseInto", "Maybe.reduce"}
DoThese  == {"doThese", "reduceThese", "traverseThese", "zipThese"}

\* the evaluators that await every call they make on the generator
AsyncSteppers == {"Either.goAsync", "AsyncMaybe.go", "doAsyncThese"}

----------------------------------------------------------------------------
(* Either.step, the evaluator behind Either.go. *)

EitherStepStart ==
    /\ scn \in EitherGo /\ pc = "start"
    /\ LET r == GenNext(gen, Undefined)
       IN  /\ gen' = r.gen
           /\ nxt' = r.res
    /\ log' = Append(log, Call("next", Undefined))
    /\ AfterCall("loop")
    /\ UNCHANGED <<scn, err, isHalted, acc, inflight>>
    /\ UNCHANGED <<flatMapVars, parVars>>

\* a stepper that stops consuming instead of forcing the return
EitherHaltNoReturn(either) ==
    /\ gen' = gen
    /\ nxt' = [done |-> TRUE, value |-> halt, threw |-> FALSE]
    /\ err' = either.val
    /\ log' = log

\* the else branch of the loop: remember the failure, force the return
EitherHalt(either) ==
    LET r == GenReturn(gen, halt)
    IN  /\ gen' = r.gen
        /\ nxt' = r.res
        /\ err' = either.val
        /\ log' = Append(log, Call("return", halt))

\* a stepper that resumes without the success
EitherResumeBare(either) ==
    LET r == GenNext(gen, Undefined)
    IN  /\ gen' = r.gen
        /\ nxt' = r.res
        /\ err' = err
        /\ log' = Append(log, Call("next", Undefined))

\* the then branch of the loop: resume with the success
EitherResume(either) ==
    LET r == GenNext(gen, either.val)
    IN  /\ gen' = r.gen
        /\ nxt' = r.res
        /\ err' = err
        /\ log' = Append(log, Call("next", either.val))

\* one iteration of while (!nxt.done)
EitherStepLoop ==
    /\ scn \in EitherGo /\ pc = "loop" /\ ~nxt.done
    /\ LET either == nxt.value
       IN  IF isRight(either) THEN EitherResume(either) ELSE EitherHalt(either)
    /\ AfterCall("loop")
    /\ UNCHANGED <<scn, isHalted, acc, inflight>>
    /\ UNCHANGED <<flatMapVars, parVars>>

\* result === halt ? left(err) : right(result)
EitherResult(value) == IF value = halt THEN left(err) ELSE right(value)

EitherStepReturn ==
    /\ scn \in EitherGo /\ pc = "loop" /\ nxt.done
    /\ result' = EitherResult(nxt.value)
    /\ pc' = "done"
    /\ UNCHANGED <<scn, stepperVars>>
    /\ UNCHANGED <<flatMapVars, parVars>>

----------------------------------------------------------------------------
(* Maybe.go. *)

MaybeGoStart ==
    /\ scn \in MaybeGo /\ pc = "start"
    /\ LET r == GenNext(gen, Undefined)
       IN  /\ gen' = r.gen
           /\ nxt' = r.res
    /\ log' = Append(log, Call("next", Undefined))
    /\ isHalted' = FALSE
    /\ AfterCall("loop")
    /\ UNCHANGED <<scn, err, acc, inflight>>
    /\ UNCHANGED <<flatMapVars, parVars>>

\* a stepper that notes the halt and goes on to the next yield
MaybeHaltGoOn(maybe) ==
    LET r == GenNext(gen, Undefined)
    IN  /\ gen' = r.gen
        /\ nxt' = r.res
        /\ isHalted' = TRUE
        /\ log' = Append(log, Call("next", Undefined))

\* the else branch of the loop: note the halt, force the return
MaybeHalt(maybe) ==
    LET r == GenReturn(gen, Undefined)
    IN  /\ gen' = r.gen
        /\ nxt' = r.res
        /\ isHalted' = TRUE
        /\ log' = Append(log, Call("return", Undefined))

\* the then branch of the loop: resume with the present value
MaybeResume(maybe) ==
    LET r == GenNext(gen, maybe.val)
    IN  /\ gen' = r.gen
        /\ nxt' = r.res
        /\ isHalted' = isHalted
        /\ log' = Append(log, Call("next", maybe.val))

MaybeGoLoop ==
    /\ scn \in MaybeGo /\ pc = "loop" /\ ~nxt.done
    /\ LET maybe == nxt.value
       IN  IF isJust(maybe) THEN MaybeResume(maybe) ELSE MaybeHalt(maybe)
    /\ AfterCall("loop")
    /\ UNCHANGED <<scn, err, acc, inflight>>
    /\ UNCHANGED <<flatMapVars, parVars>>

\* a result decided by the value the generator completed with
MaybeResultByValue(value) == IF value = Undefined THEN nothing ELSE just(value)

\* isHalted ? nothing : just(nxt.value)
MaybeResult(value) == IF isHalted THEN nothing ELSE just(value)

MaybeGoReturn ==
    /\ scn \in MaybeGo /\ pc = "loop" /\ nxt.done
    /\ result' = MaybeResult(nxt.value)
    /\ pc' = "done"
    /\ UNCHANGED <<scn, stepperVars>>
    /\ UNCHANGED <<flatMapVars, parVars>>


----------------------------------------------------------------------------
(* doImpl, the evaluator behind doThese. *)

DoImplStart ==
    /\ scn \in DoThese /\ pc = "start"
    /\ LET r == GenNext(gen, Undefined)
       IN  /\ gen' = r.gen
           /\ nxt' = r.res
    /\ log' = Append(log, Call("next", Undefined))
    /\ acc' = Undefined
    /\ AfterCall("loop")
    /\ UNCHANGED <<scn, err, isHalted, inflight>>
    /\ UNCHANGED <<flatMapVars, parVars>>

\* an accumulator that combines the new payload on the left
AccumulateSwapped(e, x) == IF Truthy(e) THEN cmb(x, e) ELSE x

\* e ? cmb(e, x) : x
Accumulate(e, x) == IF Truthy(e) THEN cmb(e, x) ELSE x

\* if (there(t)): resume with the second payload
DoSecond(t) ==
    LET r == GenNext(gen, t.value)
    IN  /\ gen' = r.gen
        /\ nxt' = r.res
        /\ log' = Append(log, Call("next", t.value))
        /\ AfterCall("loop")
        /\ UNCHANGED acc

\* else if (paired(t)): accumulate the first payload, resume with the second
DoBoth(t) ==
    LET r == GenNext(gen, t.snd)
    IN  /\ acc' = Accumulate(acc, t.fst)
        /\ gen' = r.gen
        /\ nxt' = r.res
        /\ log' = Append(log, Call("next", t.snd))
        /\ AfterCall("loop")

\* else: return at once; the generator is left suspended at its yield
DoFirst(t) ==
    /\ result' = IF Truthy(acc) THEN first(cmb(acc, t.value)) ELSE t
    /\ pc' = "done"
    /\ UNCHANGED <<gen, nxt, acc, log>>

\* one iteration of while (!nx.done)
DoImplLoop ==
    /\ scn \in DoThese /\ pc = "loop" /\ ~nxt.done
    /\ LET t == nxt.value[1]
       IN  IF there(t) THEN DoSecond(t)
           ELSE IF paired(t) THEN DoBoth(t)
           ELSE DoFirst(t)
    /\ UNCHANGED <<scn, err, isHalted, inflight>>
    /\ UNCHANGED <<flatMapVars, parVars>>

\* e ? both(e, nx.value) : second(nx.value)
DoResult(e, value) == IF Truthy(e) THEN both(e, value) ELSE second(value)

DoImplReturn ==
    /\ scn \in DoThese /\ pc = "loop" /\ nxt.done
    /\ result' = DoResult(acc, nxt.value)
    /\ pc' = "done"
    /\ UNCHANGED <<scn, stepperVars>>
    /\ UNCHANGED <<flatMapVars, parVars>>

----------------------------------------------------------------------------
(* doAsyncImpl, the evaluator behind doAsyncThese.  Every call on the      *)
(* generator is awaited: the call is issued, the generator settles it, and *)
(* the evaluator goes on with the settled iterator result.                 *)

\* what an async generator runs inside the call c, before the call returns
\* its promise: the body of a fresh generator runs up to its first await.
\* A yield* and a return await first; a throw does not, so a body that
\* throws at once has thrown, and its finally block has been entered, when
\* the first next() returns.
AsyncGenCall(g, c) ==
    IF /\ c.op = "next" /\ g.phase = "fresh"
       /\ g.prog.body = <<>> /\ g.prog.throws /\ g.prog.hasFinally
    THEN [g EXCEPT !.throwing = TRUE, !.cleanups = @ + 1, !.pending = Error]
    ELSE g

\* what the call c has done to the generator when its promise settles: the
\* rest of the finally block entered inside the call, or the whole advance
AsyncGenSettled(g, c) ==
    IF g.phase = "fresh" /\ g.throwing THEN LeaveFinally(g)
    ELSE IF c.op = "next" THEN GenNext(g, c.arg)
    ELSE GenReturn(g, c.arg)

DoAsyncImplStart ==
    /\ scn = "doAsyncThese" /\ pc = "start"
    /\ inflight' = Append(inflight, Call("next", Undefined))
    /\ log' = Append(log, Call("next", Undefined))
    /\ gen' = AsyncGenCall(gen, Call("next", Undefined))
    /\ acc' = Undefined
    /\ pc' = "await"
    /\ UNCHANGED <<scn, nxt, err, isHalted, result>>
    /\ UNCHANGED <<flatMapVars, parVars>>

\* the async generator settles the oldest call made on it
AsyncGenSettle ==
    /\ scn \in AsyncSteppers /\ pc = "await" /\ inflight # <<>>
    /\ LET c == Head(inflight)
           r == AsyncGenSettled(gen, c)
       IN  /\ gen' = r.gen
           /\ nxt' = r.res
    /\ inflight' = Tail(inflight)
    /\ AfterCall("loop")
    /\ UNCHANGED <<scn, err, isHalted, acc, log>>
    /\ UNCHANGED <<flatMapVars, parVars>>

\* an evaluator that goes round its loop without awaiting the call
DoAsyncSecondNoAwait(t) ==
    /\ inflight' = Append(inflight, Call("next", t.value))
    /\ log' = Append(log, Call("next", t.value))
    /\ pc' = "loop"
    /\ UNCHANGED <<acc, result>>

DoAsyncSecond(t) ==
    /\ inflight' = Append(inflight, Call("next", t.value))
    /\ log' = Append(log, Call("next", t.value))
    /\ pc' = "await"
    /\ UNCHANGED <<acc, result>>

DoAsyncBoth(t) ==
    /\ acc' = Accumulate(acc, t.fst)
    /\ inflight' = Append(inflight, Call("next", t.snd))
    /\ log' = Append(log, Call("next", t.snd))
    /\ pc' = "await"
    /\ UNCHANGED result

DoAsyncFirst(t) ==
    /\ result' = IF Truthy(acc) THEN first(cmb(acc, t.value)) ELSE t
    /\ pc' = "done"
    /\ UNCHANGED <<acc, log, inflight>>

DoAsyncImplLoop ==
    /\ scn = "doAsyncThese" /\ pc = "loop" /\ ~nxt.done
    /\ LET t == nxt.value[1]
       IN  IF there(t) THEN DoAsyncSecond(t)
           ELSE IF paired(t) THEN DoAsyncBoth(t)
           ELSE DoAsyncFirst(t)
    /\ UNCHANGED <<scn, gen, nxt, err, isHalted>>
    /\ UNCHANGED <<flatMapVars, parVars>>

DoAsyncImplReturn ==
    /\ scn = "doAsyncThese" /\ pc = "loop" /\ nxt.done
    /\ result' = DoResult(acc, nxt.value)
    /\ pc' = "done"
    /\ UNCHANGED <<scn, stepperVars>>
    /\ UNCHANGED <<flatMapVars, parVars>>

----------------------------------------------------------------------------
(* Either.stepAsync, the evaluator behind Either.goAsync. *)

EitherStepAsyncStart ==
    /\ scn = "Either.goAsync" /\ pc = "start"
    /\ inflight' = Append(inflight, Call("next", Undefined))
    /\ log' = Append(log, Call("next", Undefined))
    /\ gen' = AsyncGenCall(gen, Call("next", Undefined))
    /\ pc' = "await"
    /\ UNCHANGED <<scn, nxt, err, isHalted, acc, result>>
    /\ UNCHANGED <<flatMapVars, parVars>>

EitherStepAsyncLoop ==
    /\ scn = "Either.goAsync" /\ pc = "loop" /\ ~nxt.done
    /\ LET either == nxt.value
           c == IF isRight(either) THEN Call("next", either.val)
                ELSE Call("return", halt)
       IN  /\ err' = IF isRight(either) THEN err ELSE either.val
           /\ inflight' = Append(inflight, c)
           /\ log' = Append(log, c)
    /\ pc' = "await"
    /\ UNCHANGED <<scn, gen, nxt, isHalted, acc, result>>
    /\ UNCHANGED <<flatMapVars, parVars>>

EitherStepAsyncReturn ==
    /\ scn = "Either.goAsync" /\ pc = "loop" /\ nxt.done
    /\ result' = EitherResult(nxt.value)
    /\ pc' = "done"
    /\ UNCHANGED <<scn, stepperVars>>
    /\ UNCHANGED <<flatMapVars, parVars>>

----------------------------------------------------------------------------
(* AsyncMaybe.go. *)

AsyncMaybeGoStart ==
    /\ scn = "AsyncMaybe.go" /\ pc = "start"
    /\ inflight' = Append(inflight, Call("next", Undefined))
    /\ log' = Append(log, Call("next", Undefined))
    /\ gen' = AsyncGenCall(gen, Call("next", Undefined))
    /\ isHalted' = FALSE
    /\ pc' = "await"
    /\ UNCHANGED <<scn, nxt, err, acc, result>>
    /\ UNCHANGED <<flatMapVars, parVars>>

AsyncMaybeGoLoop ==
    /\ scn = "AsyncMaybe.go" /\ pc = "loop" /\ ~nxt.done
    /\ LET maybe == nxt.value
           c == IF isJust(maybe) THEN Call("next", maybe.val)
                ELSE Call("return", Undefined)
       IN  /\ isHalted' = IF isJust(maybe) THEN isHalted ELSE TRUE
           /\ inflight' = Append(inflight, c)
           /\ log' = Append(log, c)
    /\ pc' = "await"
    /\ UNCHANGED <<scn, gen, nxt, err, acc, result>>
    /\ UNCHANGED <<flatMapVars, parVars>>

AsyncMaybeGoReturn ==
    /\ scn = "AsyncMaybe.go" /\ pc = "loop" /\ nxt.done
    /\ result' = MaybeResult(nxt.value)
    /\ pc' = "done"
    /\ UNCHANGED <<scn, stepperVars>>
    /\ UNCHANGED <<flatMapVars, parVars>>

----------------------------------------------------------------------------
(* These.flatMap.  The argument f is a table; an application of f is       *)
(* recorded beside the value it contributes to.                            *)

\* mapFirst, with the function applied to the first payload as a table
mapFirst(t, f) ==
    IF there(t) THEN t
    ELSE IF here(t) THEN first(f[t.value])
    ELSE both(f[t.fst], t.snd)

flatMap(t, f) ==
    IF here(t) THEN [ret |-> t, calls |-> <<>>]
    ELSE IF there(t) THEN [ret |-> f[t.value], calls |-> <<t.value>>]
    ELSE [ret |-> mapFirst(f[t.snd], [y \in Firsts |-> cmb(t.fst, y)]),
          calls |-> <<t.snd>>]

FlatMapCall ==
    /\ scn = "These.flatMap" /\ pc = "start"
    /\ LET r == flatMap(these, fn)
       IN  /\ result' = r.ret
           /\ fcalls' = r.calls
    /\ pc' = "done"
    /\ UNCHANGED <<scn, stepperVars, these, fn, args, parVars>>

----------------------------------------------------------------------------
(* flatMap, andThen, map and zipWith.  A function argument is a table; an  *)
(* operation gives what it returns (ret) and the arguments its function    *)
(* argument was invoked with (calls).                                      *)

isLeft(either) == either.kind = "LEFT"

\* a flatMap that runs f whatever the receiver
EitherFlatMapAlways(self, f) ==
    IF isLeft(self) THEN [ret |-> self, calls |-> <<self.val>>]
    ELSE [ret |-> f[self.val], calls |-> <<self.val>>]

\* this.isLeft() ? this : f(this.val)
EitherFlatMap(self, f) ==
    IF isLeft(self) THEN [ret |-> self, calls |-> <<>>]
    ELSE [ret |-> f[self.val], calls |-> <<self.val>>]

\* this.flatMap((val) => right(f(val)))
EitherMap(self, f) == EitherFlatMap(self, [val \in DOMAIN f |-> right(f[val])])

\* this.isNothing() ? this : f(this.val)
MaybeAndThen(self, f) ==
    IF isNothing(self) THEN [ret |-> self, calls |-> <<>>]
    ELSE [ret |-> f[self.val], calls |-> <<self.val>>]

\* this.andThen((val) => just(f(val)))
MaybeMap(self, f) == MaybeAndThen(self, [val \in DOMAIN f |-> just(f[val])])

\* These.map
TheseMap(self, f) ==
    IF here(self) THEN [ret |-> self, calls |-> <<>>]
    ELSE IF there(self)
    THEN [ret |-> second(f[self.value]), calls |-> <<self.value>>]
    ELSE [ret |-> both(self.fst, f[self.snd]), calls |-> <<self.snd>>]

\* (rhs) => f(lhs, rhs), as a table
Partial(f, lhs) == [rhs \in Seconds |-> f[<<lhs, rhs>>]]

\* the calls of f made when the callback (lhs) => that.map(...) was invoked
\* as `outer` tells and, invoked with lhs, invokes f on the values `inner`
Nested(outer, inner) ==
    IF outer = <<>> THEN <<>>
    ELSE [k \in 1..Len(inner) |-> <<outer[1], inner[k]>>]

\* this.flatMap((lhs) => that.map((rhs) => f(lhs, rhs)))
EitherZipWith(self, that, f) ==
    LET inner(lhs) == EitherMap(that, Partial(f, lhs))
        outer == EitherFlatMap(self, [lhs \in Seconds |-> inner(lhs).ret])
    IN  [ret |-> outer.ret,
         calls |-> IF outer.calls = <<>> THEN <<>>
                   ELSE Nested(outer.calls, inner(outer.calls[1]).calls)]

\* this.andThen((lhs) => that.map((rhs) => f(lhs, rhs)))
MaybeZipWith(self, that, f) ==
    LET inner(lhs) == MaybeMap(that, Partial(f, lhs))
        outer == MaybeAndThen(self, [lhs \in Seconds |-> inner(lhs).ret])
    IN  [ret |-> outer.ret,
         calls |-> IF outer.calls = <<>> THEN <<>>
                   ELSE Nested(outer.calls, inner(outer.calls[1]).calls)]

BindScenarios == {"Either.flatMap", "Maybe.andThen"}

\* the receiver's flatMap (andThen) is called with f
BindCall ==
    /\ scn \in BindScenarios /\ pc = "start"
    /\ LET r == IF scn = "Either.flatMap" THEN EitherFlatMap(these, fn)
                ELSE MaybeAndThen(these, fn)
       IN  /\ result' = r.ret
           /\ fcalls' = r.calls
    /\ pc' = "done"
    /\ UNCHANGED <<scn, stepperVars, these, fn, args, parVars>>

\* These.zipWith: this.flatMap((x) => that.map((y) => f(x, y)))
TheseZipWith(self, that, f) ==
    LET inner(lhs) == TheseMap(that, Partial(f, lhs))
        outer == flatMap(self, [lhs \in Seconds |-> inner(lhs).ret])
    IN  [ret |-> outer.ret,
         calls |-> IF outer.calls = <<>> THEN <<>>
                   ELSE Nested(outer.calls, inner(outer.calls[1]).calls)]

ZipWithScenarios == {"Either.zipWith", "Maybe.zipWith", "These.zipWith"}

\* the receiver's zipWith is called with that = args[1] and f
ZipWithCall ==
    /\ scn \in ZipWithScenarios /\ pc = "start"
    /\ LET r == CASE scn = "Either.zipWith" -> EitherZipWith(these, args[1], fn)
                  [] scn = "Maybe.zipWith"  -> MaybeZipWith(these, args[1], fn)
                  [] OTHER                  -> TheseZipWith(these, args[1], fn)
       IN  /\ result' = r.ret
           /\ fcalls' = r.calls
    /\ pc' = "done"
    /\ UNCHANGED <<scn, stepperVars, these, fn, args, parVars>>

----------------------------------------------------------------------------
(* Semigroup.cmb of Either, Maybe and These.  The payloads are combined by *)
(* their own cmb.                                                          *)

\* a combination that skips a failed left operand
EitherCmbSkipLeft(self, that) ==
    IF isLeft(self) THEN that
    ELSE IF isLeft(that) THEN that
    ELSE right(cmb(self.val, that.val))

\* a combination that prefers the right operand's failure
EitherCmbLastLeft(self, that) ==
    IF isLeft(that) THEN that
    ELSE IF isLeft(self) THEN self
    ELSE right(cmb(self.val, that.val))

\* this.zipWith(that, cmb), which is
\* this.flatMap((lhs) => that.map((rhs) => cmb(lhs, rhs)))
EitherCmb(self, that) ==
    IF isLeft(self) THEN self
    ELSE IF isLeft(that) THEN that
    ELSE right(cmb(self.val, that.val))

\* the payload pairs handed to cmb by this.zipWith(that, cmb)
EitherCmbCalls(self, that) ==
    IF isLeft(self) \/ isLeft(that) THEN <<>>
    ELSE <<<<self.val, that.val>>>>

\* a combination of two present values that puts the right payload first
MaybeCmbRightFirst(self, that) ==
    IF isJust(self)
    THEN (IF isJust(that) THEN just(cmb(that.val, self.val)) ELSE self)
    ELSE that

MaybeCmb(self, that) ==
    IF isJust(self)
    THEN (IF isJust(that) THEN just(cmb(self.val, that.val)) ELSE self)
    ELSE that

\* the payload pairs handed to cmb when both operands are present
MaybeCmbCalls(self, that) ==
    IF isJust(self) /\ isJust(that) THEN <<<<self.val, that.val>>>> ELSE <<>>

\* a combination that puts the right operand's payloads first
TheseCmbSwapped(self, that) ==
    IF here(self) THEN
        IF here(that) THEN first(cmb(that.value, self.value))
        ELSE IF there(that) THEN both(self.value, that.value)
        ELSE both(cmb(that.fst, self.value), that.snd)
    ELSE IF there(self) THEN
        IF here(that) THEN both(that.value, self.value)
        ELSE IF there(that) THEN second(cmb(that.value, self.value))
        ELSE both(that.fst, cmb(that.snd, self.value))
    ELSE
        IF here(that) THEN both(cmb(that.value, self.fst), self.snd)
        ELSE IF there(that) THEN both(self.fst, cmb(that.value, self.snd))
        ELSE both(cmb(that.fst, self.fst), cmb(that.snd, self.snd))

TheseCmb(self, that) ==
    IF here(self) THEN
        IF here(that) THEN first(cmb(self.value, that.value))
        ELSE IF there(that) THEN both(self.value, that.value)
        ELSE both(cmb(self.value, that.fst), that.snd)
    ELSE IF there(self) THEN
        IF here(that) THEN both(that.value, self.value)
        ELSE IF there(that) THEN second(cmb(self.value, that.value))
        ELSE both(that.fst, cmb(self.value, that.snd))
    ELSE
        IF here(that) THEN both(cmb(self.fst, that.value), self.snd)
        ELSE IF there(that) THEN both(self.fst, cmb(self.snd, that.value))
        ELSE both(cmb(self.fst, that.fst), cmb(self.snd, that.snd))

\* the payload pairs handed to cmb: the first payloads, then the second
TheseCmbCalls(self, that) ==
    LET fsts(t) == IF here(t) THEN <<t.value>>
                   ELSE IF paired(t) THEN <<t.fst>> ELSE <<>>
        snds(t) == IF there(t) THEN <<t.value>>
                   ELSE IF paired(t) THEN <<t.snd>> ELSE <<>>
        pair(l, r) == IF l = <<>> \/ r = <<>> THEN <<>> ELSE <<l \o r>>
    IN  pair(fsts(self), fsts(that)) \o pair(snds(self), snds(that))

CmbScenarios == {"Either.cmb", "Maybe.cmb", "These.cmb"}

\* the payload pairs handed to cmb in evaluating cmb(x, y)
CombineCalls(x, y) ==
    CASE scn = "Either.cmb" -> EitherCmbCalls(x, y)
      [] scn = "Maybe.cmb"  -> MaybeCmbCalls(x, y)
      [] OTHER              -> TheseCmbCalls(x, y)

\* cmb(x, y) of two values of the family under evaluation
Combine(x, y) ==
    CASE scn = "Either.cmb" -> EitherCmb(x, y)
      [] scn = "Maybe.cmb"  -> MaybeCmb(x, y)
      [] OTHER              -> TheseCmb(x, y)

\* the values of each family, their success payloads members of a semigroup
Operands(s) ==
    CASE s \in {"Either.cmb", "Either.cmp", "Either.flatMap", "Either.zipWith"}
            -> Eithers
      [] s \in {"Maybe.cmb", "Maybe.cmp", "Maybe.andThen", "Maybe.zipWith"}
            -> Maybes
      [] OTHER -> Theses

\* cmb(a, b), cmb(cmb(a, b), c) and cmb(a, cmb(b, c)) are evaluated; the
\* payload combinations of cmb(a, b) are recorded
CmbCall ==
    /\ scn \in CmbScenarios /\ pc = "start"
    /\ LET a == args[1]
           b == args[2]
           c == args[3]
       IN  /\ result' = [ab    |-> Combine(a, b),
                          left  |-> Combine(Combine(a, b), c),
                          right |-> Combine(a, Combine(b, c))]
           /\ fcalls' = CombineCalls(a, b)
    /\ pc' = "done"
    /\ UNCHANGED <<scn, stepperVars, these, fn, args, parVars>>

----------------------------------------------------------------------------
(* Eq.eq and Ord.cmp of Either, Maybe and These.  The payloads are tested  *)
(* and compared by their own eq and cmp.                                   *)

\* the Ordering values
less    == "less"
equal   == "equal"
greater == "greater"

\* cmb of two Orderings: the first decides unless it is equal
OrderingCmb(x, y) == IF x = equal THEN y ELSE x

\* the place of a payload in the order of its type
Rank(p) == IF p \in {"a", "x"} THEN 1 ELSE 2

\* eq and cmp of two payloads
eq(x, y) == x = y
cmp(x, y) ==
    IF Rank(x) < Rank(y) THEN less
    ELSE IF Rank(x) > Rank(y) THEN greater
    ELSE equal

\* an equality of Both values that looks at the first payloads only
TheseEqFstOnly(self, that) ==
    IF here(self) THEN here(that) /\ eq(self.value, that.value)
    ELSE IF there(self) THEN there(that) /\ eq(self.value, that.value)
    ELSE paired(that) /\ eq(self.fst, that.fst)

EitherEq(self, that) ==
    IF isLeft(self) THEN isLeft(that) /\ eq(self.val, that.val)
    ELSE isRight(that) /\ eq(self.val, that.val)

MaybeEq(self, that) ==
    IF isNothing(self) THEN isNothing(that)
    ELSE isJust(that) /\ eq(self.val, that.val)

TheseEq(self, that) ==
    IF here(self) THEN here(that) /\ eq(self.value, that.value)
    ELSE IF there(self) THEN there(that) /\ eq(self.value, that.value)
    ELSE paired(that) /\ eq(self.fst, that.fst) /\ eq(self.snd, that.snd)

\* a comparison that takes two absent values for unequal
MaybeCmpNothingLess(self, that) ==
    IF isNothing(self) THEN less
    ELSE IF isNothing(that) THEN greater ELSE cmp(self.val, that.val)

\* a comparison of Both values decided by the second payloads first
TheseCmpSndFirst(self, that) ==
    IF here(self) THEN (IF here(that) THEN cmp(self.value, that.value) ELSE less)
    ELSE IF there(self) THEN
        IF there(that) THEN cmp(self.value, that.value)
        ELSE IF here(that) THEN greater ELSE less
    ELSE IF paired(that)
    THEN OrderingCmb(cmp(self.snd, that.snd), cmp(self.fst, that.fst))
    ELSE greater

EitherCmp(self, that) ==
    IF isLeft(self)
    THEN (IF isLeft(that) THEN cmp(self.val, that.val) ELSE less)
    ELSE (IF isRight(that) THEN cmp(self.val, that.val) ELSE greater)

MaybeCmp(self, that) ==
    IF isNothing(self) THEN (IF isNothing(that) THEN equal ELSE less)
    ELSE IF isNothing(that) THEN greater ELSE cmp(self.val, that.val)

TheseCmp(self, that) ==
    IF here(self) THEN (IF here(that) THEN cmp(self.value, that.value) ELSE less)
    ELSE IF there(self) THEN
        IF there(that) THEN cmp(self.value, that.value)
        ELSE IF here(that) THEN greater ELSE less
    ELSE IF paired(that)
    THEN OrderingCmb(cmp(self.fst, that.fst), cmp(self.snd, that.snd))
    ELSE greater

CmpScenarios == {"Either.cmp", "Maybe.cmp", "These.cmp"}

\* eq(x, y) and cmp(x, y) of two values of the family under evaluation
Equals(x, y) ==
    CASE scn = "Either.cmp" -> EitherEq(x, y)
      [] scn = "Maybe.cmp"  -> MaybeEq(x, y)
      [] OTHER              -> TheseEq(x, y)

Compare(x, y) ==
    CASE scn = "Either.cmp" -> EitherCmp(x, y)
      [] scn = "Maybe.cmp"  -> MaybeCmp(x, y)
      [] OTHER              -> TheseCmp(x, y)

\* eq and cmp are evaluated on the pairs of the operands a, b, c
CmpCall ==
    /\ scn \in CmpScenarios /\ pc = "start"
    /\ LET a == args[1]
           b == args[2]
           c == args[3]
       IN  result' = [eqab  |-> Equals(a, b),  eqba  |-> Equals(b, a),
                      cmpab |-> Compare(a, b), cmpba |-> Compare(b, a),
                      cmpbc |-> Compare(b, c), cmpac |-> Compare(a, c)]
    /\ pc' = "done"
    /\ UNCHANGED <<scn, stepperVars, flatMapVars, parVars>>

----------------------------------------------------------------------------
(* AsyncMaybe.traverseIntoPar.                                             *)
(*                                                                         *)
(* elems[i] is what Promise.resolve(f(elem, idx)) of the i-th element      *)
(* settles with: a Maybe, a rejection, or nothing at all (it never         *)
(* settles).  The executor of the returned promise runs the for loop to    *)
(* its end before any then-callback runs.                                  *)

rejection == [kind |-> "REJECT"]
never     == [kind |-> "NEVER"]

Settlements == Maybes \cup {rejection, never}

\* the returned promise before it settles
Pending == [state |-> "pending", value |-> [kind |-> "NONE"]]

\* the reason the i-th element computation rejects with
reason(i) == [kind |-> "REASON", of |-> i]

\* a resolve that settles the promise again
resolveAgain(p, value) == [state |-> "fulfilled", value |-> value]

\* resolve(value) of the returned promise: a settled promise stays as it is
resolve(p, value) ==
    IF p.state = "pending" THEN [state |-> "fulfilled", value |-> value] ELSE p

\* reject(reason) of the returned promise
reject(p, why) ==
    IF p.state = "pending" THEN [state |-> "rejected", value |-> why] ELSE p

\* the operations that run traverseIntoPar
ParScenarios == {"traverseIntoPar", "traversePar"}

\* an entry keyed by the order of completion instead of the input position
EntryByCompletion(maybe, idx) ==
    IF isJust(maybe) THEN just(<<Len(builder.added), maybe.val>>) ELSE maybe

\* traversePar's wrapper of f: (await f(elem, idx)).map((val) => [idx, val])
Entry(maybe, idx) ==
    IF isJust(maybe) THEN just(<<idx, maybe.val>>) ELSE maybe

\* what the then-callback of the i-th element is called with
Fulfilment(i) ==
    IF scn = "traversePar" THEN Entry(elems[i], comp[i].idx) ELSE elems[i]

Dispatched == {i \in 1..Len(comp) : comp[i].state # "unstarted"}

\* one iteration of for (const elem of elems)
ParDispatch ==
    /\ scn \in ParScenarios /\ pc = "start"
    /\ Cardinality(Dispatched) < Len(elems)
    /\ LET i == Cardinality(Dispatched) + 1
           idx == remaining
       IN  /\ comp' = [comp EXCEPT ![i] = [state |-> "pending", idx |-> idx]]
           /\ fcalls' = Append(fcalls, <<i, idx>>)
    /\ remaining' = remaining + 1
    /\ UNCHANGED <<scn, pc, stepperVars, result, these, fn, args, elems, promise, builder>>

\* the loop ends, the executor returns and the caller holds the promise
ParReturn ==
    /\ scn \in ParScenarios /\ pc = "start"
    /\ Cardinality(Dispatched) = Len(elems)
    /\ pc' = "returned"
    /\ UNCHANGED <<scn, stepperVars, result, flatMapVars, parVars>>

\* a callback that counts an absent Maybe as one more completion
OnNothingAwaitAll(maybe) ==
    /\ remaining' = remaining - 1
    /\ builder' = builder
    /\ promise' = IF remaining - 1 = 0 THEN resolve(promise, maybe) ELSE promise

\* the callback's path for an absent Maybe
OnNothing(maybe) ==
    /\ promise' = resolve(promise, maybe)
    /\ UNCHANGED <<remaining, builder>>

\* a callback that finishes one completion early
OnJustOffByOne(maybe) ==
    /\ remaining' = remaining - 1
    /\ IF remaining - 1 <= 1
       THEN /\ builder' = finish(add(builder, maybe.val))
            /\ promise' = resolve(promise, just(finished(add(builder, maybe.val))))
       ELSE /\ builder' = add(builder, maybe.val)
            /\ promise' = promise

\* a callback that leaves the builder alone once the promise is settled
OnJustUnlessSettled(maybe) ==
    IF promise.state # "pending"
    THEN UNCHANGED <<remaining, builder, promise>>
    ELSE /\ remaining' = remaining - 1
         /\ IF remaining - 1 = 0
            THEN /\ builder' = finish(add(builder, maybe.val))
                 /\ promise' = resolve(promise, just(finished(add(builder, maybe.val))))
            ELSE /\ builder' = add(builder, maybe.val)
                 /\ promise' = promise

\* the callback's path for a present Maybe
OnJust(maybe) ==
    /\ remaining' = remaining - 1
    /\ IF remaining - 1 = 0
       THEN /\ builder' = finish(add(builder, maybe.val))
            /\ promise' = resolve(promise, just(finished(add(builder, maybe.val))))
       ELSE /\ builder' = add(builder, maybe.val)
            /\ promise' = promise

\* a then-callback that may run while the loop is still dispatching
ParOnFulfilledEarly(i) ==
    /\ scn \in ParScenarios /\ pc \in {"start", "returned"}
    /\ comp[i].state = "pending"
    /\ elems[i] \in Maybes
    /\ LET maybe == Fulfilment(i)
       IN  IF isNothing(maybe) THEN OnNothing(maybe) ELSE OnJust(maybe)
    /\ comp' = [comp EXCEPT ![i].state = "handled"]
    /\ UNCHANGED <<scn, pc, stepperVars, result, flatMapVars, elems>>

\* the then-callback of the i-th element runs with the Maybe it fulfilled with
ParOnFulfilled(i) ==
    /\ scn \in ParScenarios /\ pc = "returned"
    /\ comp[i].state = "pending"
    /\ elems[i] \in Maybes
    /\ LET maybe == Fulfilment(i)
       IN  IF isNothing(maybe) THEN OnNothing(maybe) ELSE OnJust(maybe)
    /\ comp' = [comp EXCEPT ![i].state = "handled"]
    /\ UNCHANGED <<scn, pc, stepperVars, result, flatMapVars, elems>>

\* the i-th element's promise rejects: reject is its rejection callback
ParOnRejected(i) ==
    /\ scn \in ParScenarios /\ pc = "returned"
    /\ comp[i].state = "pending"
    /\ elems[i] = rejection
    /\ promise' = reject(promise, reason(i))
    /\ comp' = [comp EXCEPT ![i].state = "handled"]
    /\ UNCHANGED <<scn, pc, stepperVars, result, flatMapVars, elems, remaining, builder>>

----------------------------------------------------------------------------
(* The specification. *)

Scenarios == {"Either.go", "Maybe.go", "doThese", "doAsyncThese",
              "These.flatMap", "traverseIntoPar", "traversePar",
              "Either.reduce", "Either.collect", "Maybe.traverseInto",
              "Maybe.reduce", "reduceThese", "traverseThese",
              "zipThese", "Either.goAsync", "AsyncMaybe.go"} \cup CmbScenarios
                 \cup CmpScenarios \cup BindScenarios \cup ZipWithScenarios

\* what a generator of each comprehension yields
Yields(s) ==
    CASE s \in EitherGo \cup {"Either.goAsync"} -> Eithers
      [] s \in MaybeGo \cup {"AsyncMaybe.go"}   -> Maybes
      [] OTHER -> {<<t, uid>> : t \in Theses}

Steppers == {"Either.go", "Maybe.go", "doThese"} \cup AsyncSteppers

\* the loop each collection function hands to its evaluator
LoopOf(s) ==
    CASE s \in {"Either.reduce", "Maybe.reduce", "reduceThese"} -> "reduce"
      [] s = "Maybe.traverseInto" -> "traverseInto"
      [] s \in {"Either.collect", "zipThese"} -> "collect"
      [] s = "traverseThese"      -> "traverse"

Collections == {"Either.reduce", "Either.collect", "Maybe.traverseInto",
                "Maybe.reduce", "reduceThese", "traverseThese", "zipThese"}

Init ==
    /\ scn \in Scenarios
    /\ pc = "start"
    /\ nxt = NoIter
    /\ err = Undefined
    /\ isHalted = FALSE
    /\ acc = Undefined
    /\ result = NoResult
    /\ log = <<>>
    /\ inflight = <<>>
    /\ fcalls = <<>>
    /\ remaining = 0
    /\ promise = Pending
    /\ builder = IF scn = "traversePar" THEN NewArrayEntryBuilder ELSE NewBuilder
    /\ IF scn \in Steppers
       THEN gen \in {NewGen(p) : p \in {q \in Programs(Yields(scn)) : WellFormed(q)}}
       ELSE IF scn \in Collections
       THEN gen \in {NewGen(p) : p \in LoopPrograms(Yields(scn), LoopOf(scn))}
       ELSE gen = NoGen
    /\ IF scn \in {"These.flatMap"} \cup BindScenarios
       THEN these \in Operands(scn) /\ fn \in [Seconds -> Operands(scn)]
       ELSE IF scn \in ZipWithScenarios
       THEN these \in Operands(scn) /\ fn \in [Seconds \X Seconds -> Seconds]
       ELSE these = second("x") /\ fn = [s \in Seconds |-> second(s)]
    /\ IF scn \in CmbScenarios \cup CmpScenarios
       THEN args \in [1..3 -> Operands(scn)]
       ELSE IF scn \in ZipWithScenarios
       THEN args \in [1..1 -> Operands(scn)]
       ELSE args = <<>>
    /\ IF scn \in ParScenarios
       THEN elems \in SeqsUpTo(Settlements, MaxElems)
       ELSE elems = <<>>
    /\ comp = [i \in 1..Len(elems) |-> [state |-> "unstarted", idx |-> 0]]

Next ==
    \/ EitherStepStart
    \/ EitherStepLoop
    \/ EitherStepReturn
    \/ MaybeGoStart
    \/ MaybeGoLoop
    \/ MaybeGoReturn
    \/ DoImplStart
    \/ DoImplLoop
    \/ DoImplReturn
    \/ DoAsyncImplStart
    \/ AsyncGenSettle
    \/ DoAsyncImplLoop
    \/ DoAsyncImplReturn
    \/ EitherStepAsyncStart
    \/ EitherStepAsyncLoop
    \/ EitherStepAsyncReturn
    \/ AsyncMaybeGoStart
    \/ AsyncMaybeGoLoop
    \/ AsyncMaybeGoReturn
    \/ FlatMapCall
    \/ BindCall
    \/ ZipWithCall
    \/ CmbCall
    \/ CmpCall
    \/ ParDispatch
    \/ ParReturn
    \/ \E i \in 1..Len(elems) : ParOnFulfilled(i)
    \/ \E i \in 1..Len(elems) : ParOnRejected(i)

Spec == Init /\ [][Next]_vars


----------------------------------------------------------------------------
(* Properties. *)

TwoVariant == scn \in {"Either.go", "Maybe.go"}
Accumulating == scn \in {"doThese", "doAsyncThese"}
Par == scn = "traverseIntoPar"

\* a yielded Left or Nothing
IsFailure(y) == y.kind \in {"LEFT", "NOTHING"}

\* the positions, in yield order, at which the generator yielded a failure
Failures == {i \in 1..Len(gen.yielded) : IsFailure(gen.yielded[i])}

FirstFailure == CHOOSE i \in Failures : \A j \in Failures : i <= j

\* the positions at which the generator yielded a bare First
BareFirsts == {i \in 1..Len(gen.yielded) : here(gen.yielded[i][1])}

\* C1: when a generator run by Either.go or Maybe.go yields a Left or a
\* Nothing, the call the evaluator makes for that yield is return(), never
\* next(); no yield of a failure is ever resumed with a bound value; and when
\* go has returned, the generator has completed and its finally block, if it
\* has one, has run exactly once.
StepperCleanup ==
    TwoVariant =>
        /\ \A i \in Failures : Len(log) > i => log[i + 1].op = "return"
        /\ \A i \in 1..Len(gen.sent) : ~IsFailure(gen.prog.body[i])
        /\ \A i \in 1..Len(gen.finSent) : ~IsFailure(gen.prog.fin[i])
        /\ gen.cleanups <= 1
        /\ (pc = "done" /\ Failures # {}) =>
              /\ gen.phase = "done"
              /\ Len(log) = Len(gen.yielded) + 1
              /\ gen.prog.hasFinally => gen.cleanups = 1

StepperCleanupWitness ==
    /\ scn = "Maybe.go" /\ pc = "done"
    /\ gen.prog.hasFinally /\ gen.cleanups = 1
    /\ Len(gen.yielded) = 2 /\ Failures = {2}
    /\ log[3].op = "return"

\* C2: when a generator run by doThese or doAsyncThese is halted by a bare
\* First yield, its finally block has run exactly once by the time the
\* evaluator has returned.
DoTheseCleanup ==
    (Accumulating /\ pc = "done" /\ BareFirsts # {} /\ gen.prog.hasFinally)
        => gen.cleanups = 1

\* C3: These.flatMap follows the accumulation table: a First receiver is
\* returned as it is and f is not invoked; a Second receiver gives f(s); a
\* Both(e, s) receiver gives first(cmb(e, e2)), both(e, s2) or
\* both(cmb(e, e2), s2) as f(s) is first(e2), second(s2) or both(e2, s2).
FlatMapTable ==
    (scn = "These.flatMap" /\ pc = "done") =>
        /\ here(these) => result = first(these.value) /\ fcalls = <<>>
        /\ there(these) => result = fn[these.value]
        /\ paired(these) =>
              LET r == fn[these.snd]
              IN  /\ here(r) => result = first(cmb(these.fst, r.value))
                  /\ there(r) => result = both(these.fst, r.value)
                  /\ paired(r) => result = both(cmb(these.fst, r.fst), r.snd)

\* the first payloads of the Both values among the first k yields, combined
\* left to right (undefined when there is none)
RECURSIVE AccUpTo(_, _)
AccUpTo(ys, k) ==
    IF k = 0 THEN Undefined
    ELSE LET t == ys[k][1]
             a == AccUpTo(ys, k - 1)
         IN  IF paired(t)
             THEN (IF a = Undefined THEN t.fst ELSE cmb(a, t.fst))
             ELSE a

\* C4: doThese resumes a Second(s) yield with s and a Both(e, s) yield with
\* s, never resumes a bare First, and returns: first(cmb(acc, e)) (first(e)
\* if nothing was accumulated) when the last yield is a bare First(e);
\* otherwise both(acc, r) if a first payload was accumulated and second(r)
\* if none was, with r the generator's return value and acc the first
\* payloads of the Both yields combined in yield order.
DoTheseResult ==
    scn = "doThese" =>
        LET ys == gen.yielded
            n  == Len(ys)
        IN  /\ \A i \in 1..n : Len(log) > i =>
                  LET t == ys[i][1]
                  IN  /\ ~here(t)
                      /\ there(t) => log[i + 1] = Call("next", t.value)
                      /\ paired(t) => log[i + 1] = Call("next", t.snd)
            /\ (pc = "done" /\ gen.phase # "threw") =>
                  IF n > 0 /\ here(ys[n][1])
                  THEN LET a == AccUpTo(ys, n - 1)
                           e == ys[n][1].value
                       IN  result = IF a = Undefined THEN first(e)
                                    ELSE first(cmb(a, e))
                  ELSE LET a == AccUpTo(ys, n)
                       IN  /\ gen.phase = "done"
                           /\ result = IF a = Undefined THEN second(gen.retval)
                                       ELSE both(a, gen.retval)

DoTheseResultWitness ==
    /\ scn = "doThese" /\ pc = "done"
    /\ Len(gen.yielded) = 2
    /\ gen.yielded[1][1] = both("a", "x")
    /\ gen.yielded[2][1] = both("c", "y")
    /\ result = both("ac", "r")

\* C5: if some Either yielded to Either.go is a Left, go returns left(e),
\* where e is the payload of the first Left yielded, whatever the
\* generator's cleanup code does.
EitherGoFailure ==
    (scn = "Either.go" /\ pc = "done" /\ Failures # {})
        => result = left(gen.yielded[FirstFailure].val)

\* C6: if some Maybe yielded to Maybe.go is absent, go returns Nothing,
\* whatever the generator's cleanup code does; go returns Just(r) only when
\* every yielded Maybe was present and the generator returned r.
MaybeGoFailure ==
    (scn = "Maybe.go" /\ pc = "done") =>
        /\ Failures # {} => result = nothing
        /\ isJust(result) =>
              /\ Failures = {}
              /\ gen.phase = "done"
              /\ result = just(gen.retval)

MaybeGoFailureWitness ==
    /\ scn = "Maybe.go" /\ pc = "done"
    /\ Failures # {} /\ gen.prog.finRet # NoOverride
    /\ gen.retval = gen.prog.finRet
    /\ result = nothing

\* C7: while every value yielded to Either.go or Maybe.go is a success, each
\* yield is resumed with exactly its payload, in yield order, and when the
\* generator has returned r, go returns right(r) / just(r).
StepperSuccess ==
    (TwoVariant /\ Failures = {}) =>
        /\ \A i \in 1..Len(gen.yielded) : Len(log) > i =>
              log[i + 1] = Call("next", gen.yielded[i].val)
        /\ \A i \in 1..Len(gen.sent) : gen.sent[i] = gen.prog.body[i].val
        /\ (pc = "done" /\ gen.phase # "threw") =>
              /\ gen.phase = "done"
              /\ result = IF scn = "Either.go" THEN right(gen.retval)
                          ELSE just(gen.retval)

StepperSuccessWitness ==
    /\ scn = "Either.go" /\ pc = "done"
    /\ gen.sent = <<"x", "y">>
    /\ Failures = {}
    /\ result = right("r")

Handled == {i \in 1..Len(elems) : comp[i].state = "handled"}
Presents == {i \in 1..Len(elems) : elems[i] \in Maybes /\ isJust(elems[i])}

\* C8: over any finite input, the empty one included, once every element
\* computation has fulfilled with a present Maybe and its completion has
\* been handled, the returned promise is fulfilled with
\* Just(builder.finish()).
ParResolvesOnSuccess ==
    (Par /\ pc = "returned" /\ Presents = 1..Len(elems) /\ Handled = 1..Len(elems))
        => promise = [state |-> "fulfilled", value |-> just(finished(builder))]

\* C9 as stated: the step in which the first element computation to fulfil
\* with Nothing is handled resolves the returned promise with Nothing.
ParFailFastAlways ==
    [][\A i \in 1..Len(elems) :
          (/\ Par
           /\ elems[i] = nothing
           /\ comp[i].state = "pending" /\ comp'[i].state = "handled"
           /\ \A j \in Handled : elems[j] # nothing)
          => promise' = [state |-> "fulfilled", value |-> nothing]]_vars

\* C9, amended: the step in which an element computation that fulfilled
\* with Nothing is handled leaves the returned promise fulfilled with
\* Nothing, however many other computations are pending or never settle,
\* unless the promise has been rejected before; the step touches no other
\* computation.
ParFailFast ==
    [][\A i \in 1..Len(elems) :
          (/\ Par
           /\ elems[i] = nothing
           /\ comp[i].state = "pending" /\ comp'[i].state = "handled"
           /\ promise.state # "rejected")
          => /\ promise' = [state |-> "fulfilled", value |-> nothing]
             /\ \A j \in 1..Len(elems) : j # i => comp'[j] = comp[j]]_vars

ParFailFastWitness ==
    /\ Par
    /\ promise = [state |-> "fulfilled", value |-> nothing]
    /\ \E j \in 1..Len(elems) : comp[j].state = "pending" /\ elems[j] = never
    /\ \E j \in 1..Len(elems) : comp[j].state = "pending" /\ elems[j] \in Maybes

\* how often val was added to the builder
Added(val) == Cardinality({k \in 1..Len(builder.added) : builder.added[k] = val})

\* C10: the returned promise is fulfilled with Just only when all N element
\* computations have fulfilled present and been handled; builder.add has
\* then been called once per element and builder.finish once.  After the
\* dispatch, remaining is N minus the number of present completions handled.
ParJustOnlyWhenAll ==
    Par =>
        /\ (promise.state = "fulfilled" /\ isJust(promise.value)) =>
              /\ Presents = 1..Len(elems)
              /\ Handled = 1..Len(elems)
              /\ Len(builder.added) = Len(elems)
              /\ \A val \in Seconds :
                    Added(val) = Cardinality({i \in Presents : elems[i].val = val})
              /\ builder.finished = 1
              /\ promise.value = just(builder.added)
        /\ pc = "returned" =>
              remaining = Len(elems) - Cardinality(Handled \cap Presents)

ParJustOnlyWhenAllWitness ==
    /\ Par
    /\ Len(elems) = 3
    /\ promise = [state |-> "fulfilled", value |-> just(<<"y", "x", "x">>)]
    /\ elems = <<just("x"), just("y"), just("x")>>
    /\ builder.finished = 1


\* C11: when the promise of traversePar (allPar) is fulfilled with Just, its
\* value is the array [v0, ..., vN-1], with vi the value of the element at
\* input position i, whatever the order in which the elements completed.
ParIndexOrder ==
    (scn = "traversePar" /\ promise.state = "fulfilled" /\ isJust(promise.value))
        => promise.value = just([i \in 1..Len(elems) |-> elems[i].val])

ParIndexOrderWitness ==
    /\ scn = "traversePar"
    /\ elems = <<just("x"), just("y"), just("x")>>
    /\ builder.added = <<<<2, "x">>, <<0, "x">>, <<1, "y">>>>
    /\ promise = [state |-> "fulfilled", value |-> just(<<"x", "y", "x">>)]


\* C12: the promise returned by traverseIntoPar settles at most once. A step
\* that settles it is the handling of one completion, and the outcome is that
\* event's: Nothing for an absent element, the rejection for a rejecting one,
\* Just of the finished builder for the last present one; a step taken once
\* the promise is settled leaves it unchanged.
ParSettleOnce ==
    [][Par =>
        /\ promise.state # "pending" => promise' = promise
        /\ (promise.state = "pending" /\ promise'.state # "pending") =>
              \E i \in 1..Len(elems) :
                 /\ comp[i].state = "pending" /\ comp'[i].state = "handled"
                 /\ promise' =
                      IF elems[i] = rejection
                      THEN [state |-> "rejected", value |-> reason(i)]
                      ELSE IF isNothing(elems[i])
                      THEN [state |-> "fulfilled", value |-> nothing]
                      ELSE [state |-> "fulfilled", value |-> just(finished(builder'))]
                 /\ isJust(elems[i]) =>
                      \A j \in 1..Len(elems) :
                         isJust(elems[j]) /\ comp'[j].state = "handled"
        /\ (promise.state = "pending" /\ promise'.state = "pending") =>
              \A i \in 1..Len(elems) :
                 (comp[i].state = "pending" /\ comp'[i].state = "handled")
                    => isJust(elems[i]) /\ remaining' > 0]_vars

ParSettleOnceWitness ==
    /\ Par
    /\ elems = <<rejection, nothing, just("x")>>
    /\ \A i \in 1..Len(elems) : comp[i].state = "handled"
    /\ promise = [state |-> "fulfilled", value |-> nothing]
    /\ builder.added = <<"x">>


\* C13: traverseIntoPar invokes f on the elements in input order, the k-th
\* call with the k-th element and idx = k - 1, and it has invoked f on every
\* element once the executor has returned, which is before the completion of
\* any element is handled.
ParDispatchOrder ==
    Par =>
        /\ fcalls = [k \in 1..Len(fcalls) |-> <<k, k - 1>>]
        /\ pc = "returned" => Len(fcalls) = Len(elems)
        /\ (\E i \in 1..Len(elems) : comp[i].state = "handled")
              => Len(fcalls) = Len(elems)

ParDispatchOrderWitness ==
    /\ Par /\ pc = "returned"
    /\ Len(elems) = MaxElems
    /\ fcalls = [k \in 1..Len(elems) |-> <<k, k - 1>>]
    /\ comp[1].state = "pending" /\ comp[2].state = "handled"


\* the elements of a sequential collection function whose result (the
\* element itself, in collect and all) is a failure: Nothing, Left, bare First
FailAt(i) ==
    LET y == gen.prog.body[i]
    IN  IF scn \in DoThese THEN here(y[1]) ELSE IsFailure(y)

FailedElems == {i \in 1..Len(gen.prog.body) : FailAt(i)}

\* the position of the first failed element, or of the last element
StopAt ==
    IF FailedElems = {} THEN Len(gen.prog.body)
    ELSE CHOOSE i \in FailedElems : \A j \in FailedElems : i <= j

\* C14: the sequential collection functions invoke f (the reducer) on the
\* elements in input order and on no element after the first one whose
\* result is a failure; Maybe.traverseInto calls builder.add with the
\* successes before that element, in input order, and builder.finish only
\* when no element failed.
SequentialOrder ==
    scn \in Collections \ {"Either.collect", "zipThese"} =>
        /\ \A k \in 1..Len(gen.fcalls) : gen.fcalls[k][1] = k
        /\ Len(gen.fcalls) <= StopAt
        /\ pc = "done" => Len(gen.fcalls) = StopAt
        /\ scn = "Maybe.traverseInto" =>
              LET added == gen.builder.added
              IN  /\ \A k \in 1..Len(gen.fcalls) : gen.fcalls[k][2] = k - 1
                  /\ Len(added) <= Len(gen.prog.body)
                  /\ \A k \in 1..Len(added) :
                        /\ \A j \in 1..k : ~FailAt(j)
                        /\ added[k] = gen.prog.body[k].val
                  /\ gen.builder.finished =
                        IF FailedElems = {} /\ gen.phase = "done" THEN 1 ELSE 0
                  /\ pc = "done" =>
                        Len(added) = IF FailedElems = {} THEN StopAt ELSE StopAt - 1

SequentialOrderWitness ==
    /\ scn = "Maybe.traverseInto" /\ pc = "done"
    /\ gen.prog.body = <<just("x"), nothing, just("y")>>
    /\ gen.fcalls = <<<<1, 0>>, <<2, 1>>>>
    /\ gen.builder.added = <<"x">> /\ gen.builder.finished = 0
    /\ result = nothing

\* C15: Either.collect and Maybe.all (traverseInto with the identity and an
\* array builder) return, when every element is a success, a success holding
\* the array of the elements' payloads in input order, and otherwise the
\* first failed element (that Left, Nothing), whatever follows it.
SequentialCollect ==
    (scn \in {"Either.collect", "Maybe.traverseInto"} /\ pc = "done") =>
        LET xs == gen.prog.body
            payloads == ArrayOf([i \in 1..Len(xs) |-> xs[i].val])
        IN  IF FailedElems # {} THEN result = xs[StopAt]
            ELSE IF scn = "Either.collect" THEN result = right(payloads)
            ELSE result = just(payloads)

SequentialCollectWitness ==
    /\ scn = "Either.collect" /\ pc = "done"
    /\ gen.prog.body = <<right("x"), left("c"), left("a")>>
    /\ result = left("c")

\* cmb(...cmb(e_1, e_2)..., e_n) for a non-empty sequence of first payloads
RECURSIVE CmbAll(_)
CmbAll(es) ==
    IF Len(es) = 1 THEN es[1]
    ELSE cmb(CmbAll(SubSeq(es, 1, Len(es) - 1)), es[Len(es)])

\* C16: reduceThese with a reducer that gives both(e_i, acc_i) at every
\* step returns both(cmb(...cmb(e_1, e_2)..., e_n), acc_n); for an empty
\* input it returns second(z), z the initial accumulator.
AccumulatingReduce ==
    (scn = "reduceThese" /\ pc = "done") =>
        LET ts == [i \in 1..Len(gen.prog.body) |-> gen.prog.body[i][1]]
            n  == Len(ts)
        IN  (\A i \in 1..n : paired(ts[i])) =>
                /\ gen.fcalls = [i \in 1..n |->
                                    <<i, IF i = 1 THEN Initial ELSE ts[i - 1].snd>>]
                /\ result = IF n = 0 THEN second(Initial)
                            ELSE both(CmbAll([i \in 1..n |-> ts[i].fst]), ts[n].snd)

AccumulatingReduceWitness ==
    /\ scn = "reduceThese" /\ pc = "done"
    /\ Len(gen.prog.body) = 3
    /\ result = both("aca", "y")
    /\ gen.fcalls = <<<<1, "z">>, <<2, "x">>, <<3, "x">>>>


\* the call an asynchronous evaluator makes in answer to the yield y
Answer(y) ==
    CASE scn = "Either.goAsync" ->
            IF isRight(y) THEN Call("next", y.val) ELSE Call("return", halt)
      [] scn = "AsyncMaybe.go" ->
            IF isJust(y) THEN Call("next", y.val) ELSE Call("return", Undefined)
      [] OTHER ->
            IF there(y[1]) THEN Call("next", y[1].value) ELSE Call("next", y[1].snd)

\* C17: Either.stepAsync, AsyncMaybe.go and doAsyncImpl have at most one
\* call of next() or return() outstanding on the generator; while it is
\* outstanding the evaluator is suspended; and the k+1-st call they make is
\* the answer to the k-th value the generator yielded, so the yields are
\* processed one at a time in the order the generator produces them.
AsyncSequential ==
    scn \in AsyncSteppers =>
        /\ Len(inflight) <= 1
        /\ inflight # <<>> => pc = "await" /\ inflight[1] = log[Len(log)]
        /\ Len(log) <= Len(gen.yielded) + 1 + Len(inflight)
        /\ Len(log) >= 1 => log[1] = Call("next", Undefined)
        /\ \A k \in 1..(Len(log) - 1) :
              /\ scn = "doAsyncThese" => ~here(gen.yielded[k][1])
              /\ log[k + 1] = Answer(gen.yielded[k])

AsyncSequentialWitness ==
    /\ scn = "Either.goAsync" /\ pc = "await"
    /\ Len(gen.yielded) = 2
    /\ log = <<Call("next", Undefined), Call("next", "x"), Call("return", halt)>>
    /\ inflight = <<Call("return", halt)>>


\* C18: when a call on the generator throws (the body threw and no finally
\* block returned over the error), Either.go, Maybe.go and doThese throw that
\* error and return nothing, the promise of Either.goAsync, AsyncMaybe.go
\* and doAsyncThese rejects with it, in the very step the call throws; an
\* evaluator gives no other result than an Outcome otherwise, so the error
\* is never turned into a Left, a Nothing or a First.
HostErrors ==
    scn \in Steppers =>
        /\ gen.phase = "threw" =>
              /\ pc = "done"
              /\ result = [kind |-> IF scn \in AsyncSteppers THEN "rejected"
                                    ELSE "thrown",
                           error |-> Error]
        /\ result \in {[kind |-> k, error |-> Error] : k \in {"thrown", "rejected"}}
              => gen.phase = "threw"

HostErrorsWitness ==
    /\ scn = "Either.goAsync" /\ pc = "done"
    /\ gen.prog.throws /\ gen.prog.hasFinally /\ gen.cleanups = 1
    /\ gen.sent = <<"x", "y">>
    /\ gen.phase = "threw"
    /\ result = [kind |-> "rejected", error |-> Error]


\* C19: cmb of two These follows the table over the nine pairs of variants,
\* the left operand's payload always on the left of a payload combination:
\*   first a,   first b    first(cmb(a, b))
\*   first a,   second y   both(a, y)
\*   first a,   both(b, y) both(cmb(a, b), y)
\*   second x,  first b    both(b, x)
\*   second x,  second y   second(cmb(x, y))
\*   second x,  both(b, y) both(b, cmb(x, y))
\*   both(a,x), first b    both(cmb(a, b), x)
\*   both(a,x), second y   both(a, cmb(x, y))
\*   both(a,x), both(b, y) both(cmb(a, b), cmb(x, y))
TheseCmbTable ==
    (scn = "These.cmb" /\ pc = "done") =>
        LET l == args[1]
            r == args[2]
            hasFst(t) == t.type \in {"First", "Both"}
            hasSnd(t) == t.type \in {"Second", "Both"}
            fstOf(t) == IF here(t) THEN t.value ELSE t.fst
            sndOf(t) == IF there(t) THEN t.value ELSE t.snd
            \* the first payloads and the second payloads, left operand first
            fsts == (IF hasFst(l) THEN <<fstOf(l)>> ELSE <<>>)
                       \o (IF hasFst(r) THEN <<fstOf(r)>> ELSE <<>>)
            snds == (IF hasSnd(l) THEN <<sndOf(l)>> ELSE <<>>)
                       \o (IF hasSnd(r) THEN <<sndOf(r)>> ELSE <<>>)
        IN  result.ab =
               IF snds = <<>> THEN first(CmbAll(fsts))
               ELSE IF fsts = <<>> THEN second(CmbAll(snds))
               ELSE both(CmbAll(fsts), CmbAll(snds))

TheseCmbTableWitness ==
    /\ scn = "These.cmb" /\ pc = "done"
    /\ args[1] = both("a", "x") /\ args[2] = both("c", "y")
    /\ result.ab = both("ac", "xy")

\* C20: cmb of Either, of Maybe and of These is associative:
\* cmb(cmb(a, b), c) = cmb(a, cmb(b, c)), in variant and payloads.
CmbAssociative ==
    (scn \in CmbScenarios /\ pc = "done") => result.left = result.right

CmbAssociativeWitness ==
    /\ scn = "These.cmb" /\ pc = "done"
    /\ args = <<second("x"), both("a", "y"), first("c")>>
    /\ result.left = both("ac", "xy")
    /\ result.right = both("ac", "xy")


\* the variant of a value, placed in the order of its family: First, Left
\* and Nothing come first, Both last
TagRank(v) ==
    IF scn = "These.cmp"
    THEN (IF here(v) THEN 1 ELSE IF there(v) THEN 2 ELSE 3)
    ELSE IF v.kind \in {"LEFT", "NOTHING"} THEN 1 ELSE 2

\* the payloads of a value, the first payload before the second
Payloads(v) ==
    IF scn = "These.cmp"
    THEN (IF paired(v) THEN <<v.fst, v.snd>> ELSE <<v.value>>)
    ELSE IF v.kind = "NOTHING" THEN <<>> ELSE <<v.val>>

\* the lexicographic comparison of two payload rows of the same length
RECURSIVE LexCmp(_, _)
LexCmp(xs, ys) ==
    IF xs = <<>> THEN equal
    ELSE IF Rank(xs[1]) < Rank(ys[1]) THEN less
    ELSE IF Rank(xs[1]) > Rank(ys[1]) THEN greater
    ELSE LexCmp(Tail(xs), Tail(ys))

\* C21: cmp of two values of different variants is decided by the variants,
\* First < Second < Both, Left < Right, Nothing < Just, whatever the
\* payloads; cmp of two values of the same variant is the comparison of
\* their payloads, for two Both values by the first payloads and by the
\* second payloads only when the first compare equal.
VariantOrdering ==
    (scn \in CmpScenarios /\ pc = "done") =>
        LET a == args[1]
            b == args[2]
        IN  result.cmpab =
               IF TagRank(a) < TagRank(b) THEN less
               ELSE IF TagRank(a) > TagRank(b) THEN greater
               ELSE LexCmp(Payloads(a), Payloads(b))

VariantOrderingWitness ==
    /\ scn = "These.cmp" /\ pc = "done"
    /\ args[1] = both("a", "y") /\ args[2] = both("c", "x")
    /\ result.cmpab = less

\* the reverse of an Ordering
Reverse(o) == IF o = less THEN greater ELSE IF o = greater THEN less ELSE equal

\* C22: in every family eq(a, b) holds exactly when cmp(a, b) is equal,
\* cmp(a, b) is the reverse of cmp(b, a), and cmp is transitive.
OrderingLawful ==
    (scn \in CmpScenarios /\ pc = "done") =>
        /\ result.eqab <=> (result.cmpab = equal)
        /\ result.cmpab = Reverse(result.cmpba)
        /\ (result.cmpab # greater /\ result.cmpbc # greater)
              => result.cmpac # greater
        /\ (result.cmpab = less /\ result.cmpbc # greater) => result.cmpac = less
        /\ (result.cmpab # greater /\ result.cmpbc = less) => result.cmpac = less

OrderingLawfulWitness ==
    /\ scn = "Maybe.cmp" /\ pc = "done"
    /\ args = <<nothing, just("x"), just("y")>>
    /\ result.cmpab = less /\ result.cmpbc = less /\ result.cmpac = less
    /\ result.cmpba = greater /\ ~result.eqab

\* C23: eq(x, y) is true exactly when x and y are of the same variant and
\* their payloads are equal, both payloads for two Both values; two Nothing
\* values are equal; for values of different variants it is false in both
\* argument orders.
EqualityTable ==
    (scn \in CmpScenarios /\ pc = "done") =>
        LET a == args[1]
            b == args[2]
            same == TagRank(a) = TagRank(b) /\ Payloads(a) = Payloads(b)
        IN  /\ result.eqab <=> same
            /\ result.eqba <=> same

EqualityTableWitness ==
    /\ scn = "These.cmp" /\ pc = "done"
    /\ args[1] = both("a", "x") /\ args[2] = both("a", "y")
    /\ ~result.eqab /\ ~result.eqba


\* a failed value of the two-variant families: a Left, a Nothing
Failed(v) == v.kind \in {"LEFT", "NOTHING"}

\* C24: flatMap of a Left and andThen of a Nothing return the receiver and
\* do not invoke f; zipWith of Either and of Maybe does not invoke its
\* function when either side is a failure, and returns the receiver when the
\* receiver is a failure, the argument when only the argument is.
ShortCircuit ==
    /\ (scn \in BindScenarios /\ pc = "done" /\ Failed(these))
          => result = these /\ fcalls = <<>>
    /\ (scn \in {"Either.zipWith", "Maybe.zipWith"} /\ pc = "done") =>
          /\ Failed(these) => result = these /\ fcalls = <<>>
          /\ (~Failed(these) /\ Failed(args[1]))
                => result = args[1] /\ fcalls = <<>>

ShortCircuitWitness ==
    /\ scn = "Either.zipWith" /\ pc = "done"
    /\ these = left("a") /\ args[1] = left("c")
    /\ result = left("a") /\ fcalls = <<>>


\* the function handed to flatMap / andThen is the family's secondOnly
\* constructor: right, just, second
IsSecondOnly ==
    \A v \in Seconds :
        fn[v] = CASE scn = "Either.flatMap" -> right(v)
                  [] scn = "Maybe.andThen"  -> just(v)
                  [] OTHER                  -> second(v)

id == [v \in Seconds |-> v]

\* C25: identity laws: x.flatMap(secondOnly) = x for every x of Either,
\* Maybe and These (a Both included), and secondOnly(v).map(id) =
\* secondOnly(v) for every v.
IdentityLaws ==
    /\ (scn \in BindScenarios \cup {"These.flatMap"} /\ pc = "done"
            /\ IsSecondOnly)
          => result = these
    /\ \A v \in Seconds :
          /\ EitherMap(right(v), id).ret = right(v)
          /\ MaybeMap(just(v), id).ret = just(v)
          /\ TheseMap(second(v), id).ret = second(v)


\* C26: Maybe's cmb has Nothing for its identity, cmb(nothing, x) = x and
\* cmb(x, nothing) = x with no payload combined, and cmb(just(a), just(b))
\* is just(cmb(a, b)), a the left operand of the one payload combination.
MaybeCmbIdentity ==
    (scn = "Maybe.cmb" /\ pc = "done") =>
        LET a == args[1]
            b == args[2]
        IN  /\ isNothing(a) => result.ab = b /\ fcalls = <<>>
            /\ isNothing(b) => result.ab = a /\ fcalls = <<>>
            /\ (isJust(a) /\ isJust(b)) =>
                  /\ result.ab = just(cmb(a.val, b.val))
                  /\ fcalls = <<<<a.val, b.val>>>>

MaybeCmbIdentityWitness ==
    /\ scn = "Maybe.cmb" /\ pc = "done"
    /\ args[1] = just("x") /\ args[2] = nothing
    /\ result.ab = just("x") /\ fcalls = <<>>

\* C27: Either's cmb of two Rights is the Right of the combined payloads;
\* with a Left among the operands no payload is combined and the result is
\* the left-hand operand when that is a Left, else the right-hand operand.
EitherCmbFirstLeft ==
    (scn = "Either.cmb" /\ pc = "done") =>
        LET a == args[1]
            b == args[2]
        IN  /\ (isRight(a) /\ isRight(b)) =>
                  /\ result.ab = right(cmb(a.val, b.val))
                  /\ fcalls = <<<<a.val, b.val>>>>
            /\ isLeft(a) => result.ab = a /\ fcalls = <<>>
            /\ (isRight(a) /\ isLeft(b)) => result.ab = b /\ fcalls = <<>>

EitherCmbFirstLeftWitness ==
    /\ scn = "Either.cmb" /\ pc = "done"
    /\ args[1] = left("a") /\ args[2] = left("c")
    /\ result.ab = left("a") /\ fcalls = <<>>


\* the function ([x, y]) => f(x, y) of the arrays of two successes
Tupled(f) ==
    [arr \in {ArrayOf(p) : p \in Seconds \X Seconds} |->
        f[CHOOSE p \in Seconds \X Seconds : ArrayOf(p) = arr]]

\* C28: for all These a and b and every f, a.zipWith(b, f) equals
\* zipThese([a, b]).map(([x, y]) => f(x, y)), tag and payloads, in the nine
\* combinations of variants.
ZipWithAgrees ==
    (scn = "zipThese" /\ pc = "done" /\ Len(gen.prog.body) = 2) =>
        LET a == gen.prog.body[1][1]
            b == gen.prog.body[2][1]
        IN  \A f \in [Seconds \X Seconds -> Seconds] :
                TheseZipWith(a, b, f).ret = TheseMap(result, Tupled(f)).ret


\* C29: once the promise returned by traverseIntoPar is resolved with
\* Nothing, no later completion invokes builder.add or builder.finish: the
\* builder stays as it is.
BuilderLeftAlone ==
    [][(Par /\ promise = [state |-> "fulfilled", value |-> nothing])
          => builder' = builder]_vars

\* C29, amended: when the promise returned by traverseIntoPar is resolved
\* with Nothing, builder.finish has not been invoked and is never invoked,
\* while builder.add is invoked once for every present completion handled,
\* those handled after the resolution included.
BuilderAfterNothing ==
    (Par /\ promise = [state |-> "fulfilled", value |-> nothing]) =>
        /\ builder.finished = 0
        /\ Len(builder.added) = Cardinality(Handled \cap Presents)
        /\ \A val \in Seconds :
              Added(val) = Cardinality({i \in Handled \cap Presents :
                                           elems[i].val = val})

BuilderAfterNothingWitness ==
    /\ Par
    /\ elems = <<nothing, just("x"), just("y")>>
    /\ comp[1].state = "handled" /\ comp[2].state = "handled"
    /\ comp[3].state = "pending"
    /\ promise = [state |-> "fulfilled", value |-> nothing]
    /\ builder.added = <<"x">> /\ builder.finished = 0


\* C30: Either.go, Maybe.go and doThese terminate on every generator that
\* yields finitely many times, cleanup yields counted: a step is possible
\* until the evaluator has returned, and the calls made never outnumber the
\* yields of the program by more than the initial next().  Having returned,
\* the evaluator has made the initial next() and one next() or return() for
\* each yield it processed, and no call on a generator that had reported
\* done.
StepperTermination ==
    scn \in {"Either.go", "Maybe.go", "doThese"} =>
        /\ pc # "done" => ENABLED Next
        /\ Len(log) <= 1 + Len(gen.prog.body) + Len(gen.prog.fin)
        /\ gen.late = 0
        /\ pc = "done" => Len(log) = 1 + Len(gen.yielded)


====
